---------------------------- MODULE Spec2Model ----------------------------
(***************************************************************************)
(* The CSS selector builder of src/05-objects-tasks.js: class CSSSelector  *)
(* (lines 121-189) and the facade cssSelectorBuilder (lines 191-228); and  *)
(* the function Rectangle (lines 23-31).                                   *)
(*                                                                         *)
(* A string is a sequence of one-character strings, '' is << >>.  Objects  *)
(* live in a heap, a sequence of records; an object's reference is its     *)
(* index.  A method is an operator from the receiver's record to a record  *)
(* [sel, err, str]: the receiver after the call, the error thrown ("none": *)
(* the call returned) and, for stringify, the string returned.             *)
(***************************************************************************)
EXTENDS Integers, Sequences, FiniteSets

VARIABLES heap,     \* the CSSSelector objects created so far
          last,     \* the last call made: what was called and what came back
          nCalls,   \* calls made so far (specification Spec only)
          seen,     \* history: the fragment kinds called so far on each object
          valid,    \* history: every call so far on the object kept the
                    \* kind ranks non-decreasing and repeated no singular kind
          rect,     \* the object Rectangle returned: << >> before the call
          area,     \* what getArea() returned, if it was the last call made
          args      \* history: the arguments Rectangle was called with

selectorVars == <<heap, last, nCalls, seen, valid>>
rectVars == <<rect, area, args>>
vars == <<heap, last, nCalls, seen, valid, rect, area, args>>

-----------------------------------------------------------------------------
(* Bounds of the model *)

MaxObjects == 3
MaxCalls == 3
MaxFrags == 3
MaxDim == 3

Objs == 1..MaxObjects

Values == { <<>>, <<"a">> }
Combinators == { <<"+">>, <<" ">> }

Dims == 0..MaxDim

Kinds == {"element", "id", "class", "attr", "pseudoClass", "pseudoElement"}
Singular == {"element", "id", "pseudoElement"}

-----------------------------------------------------------------------------
(* JavaScript helpers *)

\* if (s): a string is truthy iff it is not empty
Truthy(str) == Len(str) > 0

RECURSIVE Join(_, _)
\* Array.prototype.join
Join(list, sep) ==
  IF Len(list) = 0 THEN <<>>
  ELSE IF Len(list) = 1 THEN list[1]
  ELSE list[1] \o sep \o Join(Tail(list), sep)

-----------------------------------------------------------------------------
(* function Rectangle *)

\* the object returned: its two properties, and the environment of the
\* call, which the function getArea closes over
Rectangle(width, height) ==
  [ width  |-> width,
    height |-> height,
    env    |-> [width |-> width, height |-> height] ]

\* as getArea, reading the properties: return this.width * this.height
getAreaOfProperties(r) == r.width * r.height

\* rectangle.getArea(): return width * height, the parameters of Rectangle
getArea(r) == r.env.width * r.env.height

-----------------------------------------------------------------------------
(* class CSSSelector *)

constructor ==
  [ elementValue       |-> <<>>,
    idValue            |-> <<>>,
    classValues        |-> <<>>,
    attrValues         |-> <<>>,
    pseudoClassValues  |-> <<>>,
    pseudoElementValue |-> <<>>,
    priority           |-> 0,
    ownStringify       |-> FALSE,   \* an own property stringify hides the method
    result             |-> <<>> ]   \* the string that own stringify returns

Returned(s) == [sel |-> s, err |-> "none", str |-> <<>>]
Thrown(s, e) == [sel |-> s, err |-> e, str |-> <<>>]

\* as checkOrder, with < written for <=
checkOrderStrict(s, priority) ==
  IF s.priority < priority
  THEN Returned([s EXCEPT !.priority = priority])
  ELSE Thrown(s, "order")

checkOrder(s, priority) ==
  IF s.priority <= priority
  THEN Returned([s EXCEPT !.priority = priority])
  ELSE Thrown(s, "order")

CSSSelector_element(s, value) ==
  IF Truthy(s.elementValue) THEN Thrown(s, "dup")
  ELSE checkOrder([s EXCEPT !.elementValue = value], 1)

\* as id, testing the element's field for the duplicate
CSSSelector_idWrongField(s, value) ==
  IF Truthy(s.elementValue) THEN Thrown(s, "dup")
  ELSE checkOrder([s EXCEPT !.idValue = value], 2)

\* as id, with the order test made before the duplicate test
CSSSelector_idOrderFirst(s, value) ==
  IF s.priority > 2 THEN Thrown(s, "order")
  ELSE IF Truthy(s.idValue) THEN Thrown(s, "dup")
  ELSE checkOrder([s EXCEPT !.idValue = value], 2)

CSSSelector_id(s, value) ==
  IF Truthy(s.idValue) THEN Thrown(s, "dup")
  ELSE checkOrder([s EXCEPT !.idValue = value], 2)

CSSSelector_class(s, value) ==
  checkOrder([s EXCEPT !.classValues = Append(@, value)], 3)

CSSSelector_attr(s, value) ==
  checkOrder([s EXCEPT !.attrValues = Append(@, value)], 4)

CSSSelector_pseudoClass(s, value) ==
  checkOrder([s EXCEPT !.pseudoClassValues = Append(@, value)], 5)

CSSSelector_pseudoElement(s, value) ==
  IF Truthy(s.pseudoElementValue) THEN Thrown(s, "dup")
  ELSE checkOrder([s EXCEPT !.pseudoElementValue = value], 6)

\* as stringify, taking the classes out of the list as it writes them
CSSSelector_stringifyShift(s) ==
  LET r1 == IF Truthy(s.elementValue) THEN s.elementValue ELSE <<>>
      r2 == IF Truthy(s.idValue) THEN r1 \o <<"#">> \o s.idValue ELSE r1
      r3 == IF Len(s.classValues) > 0
            THEN r2 \o <<".">> \o Join(s.classValues, <<".">>) ELSE r2
      r4 == IF Len(s.attrValues) > 0
            THEN r3 \o <<"[">> \o Join(s.attrValues, <<"]", "[">>) \o <<"]">>
            ELSE r3
      r5 == IF Len(s.pseudoClassValues) > 0
            THEN r4 \o <<":">> \o Join(s.pseudoClassValues, <<":">>) ELSE r4
      r6 == IF Truthy(s.pseudoElementValue)
            THEN r5 \o <<":", ":">> \o s.pseudoElementValue ELSE r5
  IN  [sel |-> [s EXCEPT !.classValues = <<>>], err |-> "none", str |-> r6]

\* as stringify, with classValues.join() for classValues.join('.')
CSSSelector_stringifyCommas(s) ==
  LET r1 == IF Truthy(s.elementValue) THEN s.elementValue ELSE <<>>
      r2 == IF Truthy(s.idValue) THEN r1 \o <<"#">> \o s.idValue ELSE r1
      r3 == IF Len(s.classValues) > 0
            THEN r2 \o <<".">> \o Join(s.classValues, <<",">>) ELSE r2
      r4 == IF Len(s.attrValues) > 0
            THEN r3 \o <<"[">> \o Join(s.attrValues, <<"]", "[">>) \o <<"]">>
            ELSE r3
      r5 == IF Len(s.pseudoClassValues) > 0
            THEN r4 \o <<":">> \o Join(s.pseudoClassValues, <<":">>) ELSE r4
      r6 == IF Truthy(s.pseudoElementValue)
            THEN r5 \o <<":", ":">> \o s.pseudoElementValue ELSE r5
  IN  [sel |-> s, err |-> "none", str |-> r6]

CSSSelector_stringify(s) ==
  LET r1 == IF Truthy(s.elementValue) THEN s.elementValue ELSE <<>>
      r2 == IF Truthy(s.idValue) THEN r1 \o <<"#">> \o s.idValue ELSE r1
      r3 == IF Len(s.classValues) > 0
            THEN r2 \o <<".">> \o Join(s.classValues, <<".">>) ELSE r2
      r4 == IF Len(s.attrValues) > 0
            THEN r3 \o <<"[">> \o Join(s.attrValues, <<"]", "[">>) \o <<"]">>
            ELSE r3
      r5 == IF Len(s.pseudoClassValues) > 0
            THEN r4 \o <<":">> \o Join(s.pseudoClassValues, <<":">>) ELSE r4
      r6 == IF Truthy(s.pseudoElementValue)
            THEN r5 \o <<":", ":">> \o s.pseudoElementValue ELSE r5
  IN  [sel |-> s, err |-> "none", str |-> r6]

\* as stringify, were the own property never looked up
stringifyOfClass(s) == CSSSelector_stringify(s)

\* s.stringify(): the own property set by combine, else the class's method
stringify(s) ==
  IF s.ownStringify THEN [sel |-> s, err |-> "none", str |-> s.result]
  ELSE CSSSelector_stringify(s)

\* s[kind](value), for the six fragment methods
Call(s, kind, value) ==
  CASE kind = "element"       -> CSSSelector_element(s, value)
    [] kind = "id"            -> CSSSelector_id(s, value)
    [] kind = "class"         -> CSSSelector_class(s, value)
    [] kind = "attr"          -> CSSSelector_attr(s, value)
    [] kind = "pseudoClass"   -> CSSSelector_pseudoClass(s, value)
    [] kind = "pseudoElement" -> CSSSelector_pseudoElement(s, value)

-----------------------------------------------------------------------------
(* const cssSelectorBuilder *)

\* as New, with one selector made once and handed out by every call
NewShared(h) ==
  IF h = <<>> THEN [heap |-> <<constructor>>, ref |-> 1]
  ELSE [heap |-> h, ref |-> 1]

\* new CSSSelector(): a fresh object and its reference
New(h) == [heap |-> Append(h, constructor), ref |-> Len(h) + 1]

\* cssSelectorBuilder[kind](value), for the six fragment entry points
cssSelectorBuilder_fragment(h, kind, value) ==
  LET n == New(h)
      r == Call(n.heap[n.ref], kind, value)
  IN  [ heap |-> [n.heap EXCEPT ![n.ref] = r.sel],
        ref  |-> n.ref,
        ret  |-> IF r.err = "none" THEN n.ref ELSE 0,
        err  |-> r.err ]

\* as combine, with the spaces around the combinator left out
cssSelectorBuilder_combineNoSpaces(h, selector1, combinator, selector2) ==
  LET r1 == stringify(h[selector1])
      h1 == [h EXCEPT ![selector1] = r1.sel]
      r2 == stringify(h1[selector2])
      h2 == [h1 EXCEPT ![selector2] = r2.sel]
      result == r1.str \o combinator \o r2.str
      n == New(h2)
  IN  [ heap |-> [n.heap EXCEPT ![n.ref] =
                    [@ EXCEPT !.ownStringify = TRUE, !.result = result]],
        ret  |-> n.ref,
        err  |-> "none" ]

cssSelectorBuilder_combine(h, selector1, combinator, selector2) ==
  LET r1 == stringify(h[selector1])
      h1 == [h EXCEPT ![selector1] = r1.sel]
      r2 == stringify(h1[selector2])
      h2 == [h1 EXCEPT ![selector2] = r2.sel]
      result == r1.str \o <<" ">> \o combinator \o <<" ">> \o r2.str
      n == New(h2)
  IN  [ heap |-> [n.heap EXCEPT ![n.ref] =
                    [@ EXCEPT !.ownStringify = TRUE, !.result = result]],
        ret  |-> n.ref,
        err  |-> "none" ]

-----------------------------------------------------------------------------
(* History variables *)

Rank(kind) ==
  CASE kind = "element"       -> 1
    [] kind = "id"            -> 2
    [] kind = "class"         -> 3
    [] kind = "attr"          -> 4
    [] kind = "pseudoClass"   -> 5
    [] kind = "pseudoElement" -> 6

\* the call of kind keeps an object's history within the ordering rules
Allowed(o, kind) ==
  /\ \A k \in seen[o] : Rank(k) <= Rank(kind)
  /\ kind \in Singular => kind \notin seen[o]

Record(o, kind) ==
  /\ seen' = [seen EXCEPT ![o] = @ \cup {kind}]
  /\ valid' = [valid EXCEPT ![o] = @ /\ Allowed(o, kind)]

NoCall ==
  [ op |-> "none", facade |-> FALSE, self |-> 0, other |-> 0,
    value |-> <<>>, ret |-> 0, err |-> "none", str |-> <<>> ]

-----------------------------------------------------------------------------
(* The calls a program can make *)

Init ==
  /\ heap = <<>>
  /\ last = NoCall
  /\ nCalls = 0
  /\ seen = [o \in Objs |-> {}]
  /\ valid = [o \in Objs |-> TRUE]
  /\ rect = <<>>
  /\ area = <<>>
  /\ args = <<>>

\* cssSelectorBuilder.<kind>(value)
Facade(kind, value) ==
  LET r == cssSelectorBuilder_fragment(heap, kind, value) IN
  /\ Len(heap) < MaxObjects
  /\ heap' = r.heap
  /\ last' = [NoCall EXCEPT !.op = kind, !.facade = TRUE, !.self = r.ref,
                            !.value = value, !.ret = r.ret, !.err = r.err]
  /\ Record(r.ref, kind)

\* o.<kind>(value) on an object created earlier
Method(o, kind, value) ==
  LET r == Call(heap[o], kind, value) IN
  /\ heap' = [heap EXCEPT ![o] = r.sel]
  /\ last' = [NoCall EXCEPT !.op = kind, !.self = o, !.value = value,
                            !.ret = IF r.err = "none" THEN o ELSE 0,
                            !.err = r.err]
  /\ Record(o, kind)

\* o.stringify()
Stringify(o) ==
  LET r == stringify(heap[o]) IN
  /\ heap' = [heap EXCEPT ![o] = r.sel]
  /\ last' = [NoCall EXCEPT !.op = "stringify", !.self = o,
                            !.err = r.err, !.str = r.str]
  /\ UNCHANGED <<seen, valid>>

\* cssSelectorBuilder.combine(a, combinator, b)
Combine(a, combinator, b) ==
  LET r == cssSelectorBuilder_combine(heap, a, combinator, b) IN
  /\ Len(heap) < MaxObjects
  /\ heap' = r.heap
  /\ last' = [NoCall EXCEPT !.op = "combine", !.facade = TRUE, !.self = a,
                            !.other = b, !.value = combinator,
                            !.ret = r.ret, !.err = r.err]
  /\ UNCHANGED <<seen, valid>>

Live == 1..Len(heap)

(* Spec: any objects, any calls, MaxCalls calls in all *)

Counted == nCalls < MaxCalls /\ nCalls' = nCalls + 1 /\ UNCHANGED rectVars

FacadeCall == Counted /\ \E k \in Kinds, v \in Values : Facade(k, v)
MethodCall ==
  Counted /\ \E o \in Live, k \in Kinds, v \in Values : Method(o, k, v)
StringifyCall == Counted /\ \E o \in Live : Stringify(o)
CombineCall ==
  Counted /\ \E a \in Live, b \in Live, t \in Combinators : Combine(a, t, b)

Next == FacadeCall \/ MethodCall \/ StringifyCall \/ CombineCall

Spec == Init /\ [][Next]_vars

(* SpecChain: one builder, any number of calls on it, at most MaxFrags     *)
(* classes, attributes and pseudo-classes in all                           *)

TotalFrags(s) ==
  Len(s.classValues) + Len(s.attrValues) + Len(s.pseudoClassValues)

Room(s, kind) == kind \in Singular \/ TotalFrags(s) < MaxFrags

ChainFacade ==
  \E k \in Kinds, v \in Values :
    heap = <<>> /\ Facade(k, v) /\ UNCHANGED <<nCalls, rectVars>>
ChainMethod ==
  \E o \in Live, k \in Kinds, v \in Values :
    Room(heap[o], k) /\ Method(o, k, v) /\ UNCHANGED <<nCalls, rectVars>>
ChainStringify == \E o \in Live : Stringify(o) /\ UNCHANGED <<nCalls, rectVars>>

NextChain == ChainFacade \/ ChainMethod \/ ChainStringify

SpecChain == Init /\ [][NextChain]_vars

(* SpecRect: one rectangle, any assignments to its properties and any     *)
(* calls of getArea                                                        *)

\* r = new Rectangle(w, h)
RectangleCall ==
  \E w \in Dims, h \in Dims :
    /\ rect = <<>>
    /\ rect' = <<Rectangle(w, h)>>
    /\ args' = <<w, h>>
    /\ area' = <<>>
    /\ UNCHANGED selectorVars

\* r.width = v
SetWidth ==
  \E v \in Dims :
    /\ rect # <<>>
    /\ rect' = <<[rect[1] EXCEPT !.width = v]>>
    /\ area' = <<>>
    /\ UNCHANGED <<args, selectorVars>>

\* r.height = v
SetHeight ==
  \E v \in Dims :
    /\ rect # <<>>
    /\ rect' = <<[rect[1] EXCEPT !.height = v]>>
    /\ area' = <<>>
    /\ UNCHANGED <<args, selectorVars>>

\* r.getArea()
GetAreaCall ==
  /\ rect # <<>>
  /\ area' = <<getArea(rect[1])>>
  /\ UNCHANGED <<rect, args, selectorVars>>

NextRect == RectangleCall \/ SetWidth \/ SetHeight \/ GetAreaCall

SpecRect == Init /\ [][NextRect]_vars

-----------------------------------------------------------------------------
(* The claims.  In an action formula, last' is the call made in the step,  *)
(* heap the objects before it and heap' the objects after it.              *)

\* a fragment method called on an object created earlier
IsMethodStep == last'.op \in Kinds /\ ~last'.facade

(* C1 as stated: a fragment call whose rank is below the rank recorded on  *)
(* the builder fails with the out-of-order error, and a call whose rank    *)
(* equals the recorded rank does not fail with the out-of-order error.     *)
C1_AsStated ==
  [][ IsMethodStep =>
        LET before == heap[last'.self].priority IN
        /\ before > Rank(last'.op) => last'.err = "order"
        /\ before = Rank(last'.op) => last'.err # "order" ]_vars

\* the value the builder holds for a singular kind
Held(s, kind) ==
  CASE kind = "element"       -> s.elementValue
    [] kind = "id"            -> s.idValue
    [] kind = "pseudoElement" -> s.pseudoElementValue
    [] OTHER                  -> <<>>

(* C1 as amended: a fragment call whose rank is below the recorded rank    *)
(* fails: with the duplicate-fragment error when it is a call of element   *)
(* or id on a builder that holds a non-empty value of that kind, with the  *)
(* out-of-order error otherwise.  A call whose rank equals the recorded    *)
(* rank does not fail with the out-of-order error.                         *)
C1_OrderRule ==
  [][ IsMethodStep =>
        LET s      == heap[last'.self]
            before == s.priority IN
        /\ before > Rank(last'.op) =>
             last'.err = IF last'.op \in {"element", "id"}
                            /\ Held(s, last'.op) # <<>>
                         THEN "dup" ELSE "order"
        /\ before = Rank(last'.op) => last'.err # "order" ]_vars

\* id was rejected as out of order by a builder that had accepted two
\* classes in a row
C1_Witness ==
  /\ last.op = "id" /\ ~last.facade /\ last.err = "order"
  /\ heap[last.self].priority = 3
  /\ Len(heap[last.self].classValues) = 2
  /\ heap[last.self].attrValues = <<>>

(* C2 as stated: a call of element, id or pseudoElement on a builder on    *)
(* which that kind was called before fails with the duplicate-fragment     *)
(* error, whatever the values of the two calls.                            *)
C2_AsStated ==
  [][ (IsMethodStep /\ last'.op \in Singular
         /\ last'.op \in seen[last'.self]) => last'.err = "dup" ]_vars

(* C3: a call that keeps the builder's history of calls non-decreasing in  *)
(* rank, with element, id and pseudoElement at most once, raises no error  *)
(* and returns the builder it was made on; stringify of such a builder     *)
(* raises no error.                                                        *)
C3_ValidAccepted ==
  /\ (last.op \in Kinds /\ valid[last.self]) =>
       (last.err = "none" /\ last.ret = last.self)
  /\ (last.op = "stringify" /\ valid[last.self]) => last.err = "none"

\* a builder was rendered after a valid chain through all six kinds
C3_Witness ==
  /\ last.op = "stringify"
  /\ valid[last.self] /\ seen[last.self] = Kinds
  /\ heap[last.self].priority = 6

RECURSIVE Each(_, _, _)
\* pre + x + post for each x of list, in order
Each(pre, list, post) ==
  IF list = <<>> THEN <<>>
  ELSE pre \o Head(list) \o post \o Each(pre, Tail(list), post)

\* pre + value when there is a value
Opt(pre, value) == IF value = <<>> THEN <<>> ELSE pre \o value

C8_AsStated ==
  [][ (IsMethodStep /\ last'.err # "none") =>
        heap'[last'.self] = heap[last'.self] ]_vars

(* C5: the string of combine(a, t, b) is the string of a, a space, the     *)
(* token t as given, a space, the string of b, whether a and b are         *)
(* builders or results of combine.                                         *)
C5_CombineString ==
  [][ last'.op = "combine" =>
        stringify(heap'[last'.ret]).str
          = stringify(heap[last'.self]).str
            \o <<" ">> \o last'.value \o <<" ">>
            \o stringify(heap[last'.other]).str ]_vars

\* a result of combine was combined, with the descendant token, with a
\* builder, and the three spaces stand in a row
C5_Witness ==
  /\ last.op = "combine" /\ last.value = <<" ">>
  /\ heap[last.self].ownStringify /\ ~heap[last.other].ownStringify
  /\ heap[last.ret].result = <<"a", " ", "+", " ", "a", " ", " ", " ", "a">>

(* C6 as stated: a fragment call made on a result of combine is not        *)
(* accepted and leaves the result as it was.                               *)
C6_AsStated ==
  [][ (IsMethodStep /\ heap[last'.self].ownStringify) =>
        (last'.err # "none" /\ heap'[last'.self] = heap[last'.self]) ]_vars

(* C7: a step never changes the string of a result of combine, whichever   *)
(* call it makes on the operands or on the result.                         *)
C7_Frozen ==
  [][ \A c \in 1..Len(heap) :
        heap[c].ownStringify =>
          stringify(heap'[c]).str = stringify(heap[c]).str ]_vars

\* object 2 is combine(1, '+', 1), made when object 1 read 'a'; a class was
\* later added to object 1, and object 2 still reads 'a + a'
C7_Witness ==
  /\ Len(heap) >= 2
  /\ heap[2].ownStringify
  /\ stringify(heap[2]).str = <<"a", " ", "+", " ", "a">>
  /\ last.op = "class" /\ ~last.facade /\ last.self = 1 /\ last.err = "none"
  /\ stringify(heap[1]).str = <<"a", ".", "a">>

\* the object new CSSSelector() makes, with one fragment added
OneFragment(kind, value) ==
  [ elementValue       |-> IF kind = "element" THEN value ELSE <<>>,
    idValue            |-> IF kind = "id" THEN value ELSE <<>>,
    classValues        |-> IF kind = "class" THEN <<value>> ELSE <<>>,
    attrValues         |-> IF kind = "attr" THEN <<value>> ELSE <<>>,
    pseudoClassValues  |-> IF kind = "pseudoClass" THEN <<value>> ELSE <<>>,
    pseudoElementValue |-> IF kind = "pseudoElement" THEN value ELSE <<>>,
    priority           |-> Rank(kind),
    ownStringify       |-> FALSE,
    result             |-> <<>> ]

\* the fragment fields and the rank of an object
Fragments(s) ==
  <<s.elementValue, s.idValue, s.classValues, s.attrValues,
    s.pseudoClassValues, s.pseudoElementValue, s.priority>>

(* C9: a facade call returns an object that did not exist before; after a  *)
(* fragment entry point the object holds the one fragment given and        *)
(* nothing else, after combine it holds no fragment.  A call changes no    *)
(* object but the one it is made on: a facade call changes none of the     *)
(* objects that existed.                                                   *)
C9_Independent ==
  [][ /\ last'.facade =>
           /\ last'.ret = Len(heap) + 1
           /\ Len(heap') = Len(heap) + 1
           /\ \A o \in 1..Len(heap) : heap'[o] = heap[o]
      /\ (last'.facade /\ last'.op \in Kinds) =>
           heap'[last'.ret] = OneFragment(last'.op, last'.value)
      /\ last'.op = "combine" =>
           Fragments(heap'[last'.ret]) = Fragments(constructor)
      /\ ~last'.facade =>
           /\ Len(heap') = Len(heap)
           /\ \A o \in 1..Len(heap) :
                o # last'.self => heap'[o] = heap[o] ]_vars

\* a second builder was made while the first held a fragment, and a call
\* then changed the second
C9_Witness ==
  /\ Len(heap) = 2
  /\ ~heap[1].ownStringify /\ ~heap[2].ownStringify
  /\ heap[1] = OneFragment("id", <<"a">>)
  /\ last.op = "class" /\ ~last.facade /\ last.self = 2 /\ last.err = "none"
  /\ heap[2].elementValue = <<"a">>

(* C10: stringify changes no object, and called twice in a row on the same *)
(* object it returns the same string twice, on a builder as on a result of *)
(* combine.                                                                *)
C10_Pure ==
  [][ last'.op = "stringify" =>
        /\ heap' = heap
        /\ (last.op = "stringify" /\ last.self = last'.self) =>
             last'.str = last.str ]_vars

\* a builder made by class('a') had stringify called on it twice in a row:
\* three calls were made, one object exists, and class is the one fragment
\* call ever made on it
C10_Witness ==
  /\ nCalls = 3 /\ Len(heap) = 1
  /\ seen[1] = {"class"}
  /\ heap[1] = OneFragment("class", <<"a">>)
  /\ last.op = "stringify" /\ last.str = <<".", "a">>

\* the fragment fields of an object, the recorded rank left out
Fields(s) ==
  <<s.elementValue, s.idValue, s.classValues, s.attrValues,
    s.pseudoClassValues, s.pseudoElementValue>>

(* C11 as stated: the recorded rank of a builder is the rank of the        *)
(* fragment most recently added to its fields, so a fragment call that     *)
(* changes the fields, failing or not, leaves the recorded rank equal to   *)
(* the rank of its kind; and the recorded rank is 0 only while the fields  *)
(* hold nothing.                                                           *)
C11_AsStated ==
  [][ last'.op \in Kinds =>
        LET before == IF last'.facade THEN constructor ELSE heap[last'.self]
            after  == heap'[last'.self] IN
        /\ Fields(after) # Fields(before) =>
             after.priority = Rank(last'.op)
        /\ after.priority = 0 => Fields(after) = Fields(constructor) ]_vars

(* C12: a call of element, id or pseudoElement on a builder that holds a   *)
(* non-empty value of that kind and whose recorded rank is above the rank  *)
(* of the call fails with the duplicate-fragment error, not with the       *)
(* out-of-order error.                                                     *)
C12_DuplicateFirst ==
  [][ (/\ IsMethodStep
       /\ last'.op \in Singular
       /\ Held(heap[last'.self], last'.op) # <<>>
       /\ heap[last'.self].priority > Rank(last'.op)) =>
        last'.err = "dup" ]_vars

\* id was called after element, id and class, every call before it valid,
\* and failed as a duplicate
C12_Witness ==
  /\ last.op = "id" /\ ~last.facade /\ last.err = "dup"
  /\ seen[last.self] = {"element", "id", "class"}
  /\ heap[last.self].elementValue = <<"a">>
  /\ heap[last.self].idValue = <<"a">>
  /\ heap[last.self].classValues = <<"a">>
  /\ heap[last.self].priority = 3

(* C13: getArea() of the rectangle built by Rectangle(w, h) returns w * h, *)
(* the product of the arguments of that call, whatever was assigned to     *)
(* the properties width and height since.                                  *)
C13_AreaOfArguments ==
  area # <<>> => area[1] = args[1] * args[2]

\* getArea returned 6 for Rectangle(2, 3) after both properties were
\* assigned other values, whose product is 0
C13_Witness ==
  /\ args = <<2, 3>>
  /\ area = <<6>>
  /\ rect[1].width = 0 /\ rect[1].height = 1

=============================================================================
